---- MODULE Spec2Model ----
(***************************************************************************)
(* DataAggregator (app/services/aggregator/data_aggregator.py): the        *)
(* per-school aggregation loop, with its three collaborators (scraper,     *)
(* NIH RePORTER metadata service, embedding service) as nondeterministic   *)
(* environments.  Strings that the code splits are sequences of one-       *)
(* character strings; a missing pandas cell is the value NaN.              *)
(***************************************************************************)
EXTENDS Integers, Sequences, FiniteSets, TLC

VARIABLES
    pc,                       \* position in aggregate_school_faculty_data
    error,                    \* the exception that left the call, or NoError
    result,                   \* {} until the call returns, then {returned mapping}
    school_faculty_df,        \* the scraper's mapping, in iteration order
    aggregated_faculty_data,  \* local: department -> list of Faculty
    d,                        \* index of the department being iterated
    r,                        \* index of the row being iterated
    first_name, last_name,    \* locals of line 39
    projects,                 \* local of line 40
    faculty,                  \* local of line 41
    embedding_id,             \* local of line 42
    scrapeCalls,              \* number of get_school_faculty_data calls
    metaCalls,                \* compile_project_metadata calls, in issue order
    embCalls,                 \* generate_and_store_embedding calls, in issue order
    embStore                  \* vectors the embedding service has stored

vars == <<pc, error, result, school_faculty_df, aggregated_faculty_data, d, r,
          first_name, last_name, projects, faculty, embedding_id,
          scrapeCalls, metaCalls, embCalls, embStore>>

locals == <<first_name, last_name, projects, faculty, embedding_id>>
logs == <<scrapeCalls, metaCalls, embCalls, embStore>>

----------------------------------------------------------------------------
(* Bounds *)

\* rows of one school, over all its departments
MaxRows == 3
\* characters of a display name (name extractor runs)
MaxNameLen == 5
\* project rows of one metadata answer (fetcher runs)
MaxProjects == 2

----------------------------------------------------------------------------
(* Values *)

Sentinel == -1
NoError == "none"
Space == " "
Chars == {"a", "b", Space}
\* a missing cell: not a str, has no split()
NaN == <<"NaN">>
\* a missing date
NaT == "NaT"

School == "SEAS"
Depts == {"Biomedical Engineering", "Computer Science"}

SeqsUpTo(S, n) == UNION {[1..k -> S] : k \in 0..n}

Names == SeqsUpTo(Chars, MaxNameLen) \cup {NaN}

ProfileRow(name, dept, about, email, url) ==
    [Faculty_Name |-> name, School |-> School, Department |-> dept,
     About_Section |-> about, Email_Address |-> email, Profile_URL |-> url]

\* rows the scraper hands to the aggregation loop
ProfileRows ==
    { ProfileRow(<<"a", Space, "b">>, "Biomedical Engineering", "about a b", "ab@virginia.edu", "/people/ab"),
      ProfileRow(<<>>, "Computer Science", "", "", "/people/anon"),
      ProfileRow(NaN, "Computer Science", "about nan", "", "") }

SumRows(df) ==
    LET RECURSIVE S(_)
        S(k) == IF k = 0 THEN 0 ELSE Len(df[k].rows) + S(k - 1)
    IN S(Len(df))

\* every mapping get_school_faculty_data may return: distinct keys, in any order
SchoolData ==
    { df \in SeqsUpTo([dept : Depts, rows : SeqsUpTo(ProfileRows, MaxRows)], Cardinality(Depts)) :
        /\ \A i, j \in 1..Len(df) : i # j => df[i].dept # df[j].dept
        /\ SumRows(df) <= MaxRows }

ProjectRowsWide ==
    [project_number : {"R01CA1", "U54EB2"}, abstract_text : {"", "abstract"},
     terms : {<<>>, <<"t1", "t2">>}, start_date : {"2020-01-01"},
     end_date : {NaT, "2024-12-31"}, agency_ic_admin : {"NCI"}, activity_code : {"R01"}]

PA == [project_number |-> "R01CA1", abstract_text |-> "abstract", terms |-> <<"t1", "t2">>,
       start_date |-> "2020-01-01", end_date |-> "2024-12-31",
       agency_ic_admin |-> "NCI", activity_code |-> "R01"]
PB == [project_number |-> "U54EB2", abstract_text |-> "", terms |-> <<>>,
       start_date |-> "2020-01-01", end_date |-> NaT,
       agency_ic_admin |-> "NCI", activity_code |-> "R01"]

\* answers of compile_project_metadata in the aggregation runs / the fetcher runs
MetadataResponses == {<<>>, <<PA, PB>>}
MetadataResponsesWide == SeqsUpTo(ProjectRowsWide, MaxProjects)

Handles == {7, 42}

NoFaculty ==
    [name |-> <<>>, school |-> "", department |-> "", about |-> "", email |-> "",
     profile_url |-> "", projects |-> <<>>, embedding_id |-> Sentinel]

----------------------------------------------------------------------------
(* Pure functions of DataAggregator *)

\* str.split(" "): cut at every single space, empty pieces kept
Split(s) ==
    LET RECURSIVE Go(_, _, _)
        Go(i, cur, acc) ==
            IF i > Len(s) THEN Append(acc, cur)
            ELSE IF s[i] = Space THEN Go(i + 1, <<>>, Append(acc, cur))
            ELSE Go(i + 1, Append(cur, s[i]), acc)
    IN Go(1, <<>>, <<>>)

extract_faculty_names_from_profile_second(faculty_profile) ==
    LET names == Split(faculty_profile.Faculty_Name)
    IN <<names[1], IF Len(names) >= 2 THEN names[2] ELSE names[1]>>

extract_faculty_names_from_profile(faculty_profile) ==
    LET names == Split(faculty_profile.Faculty_Name)
    IN <<names[1], names[Len(names)]>>

convert_to_project_model_swapped(project) ==
    [project_number |-> project.project_number,
     abstract |-> project.abstract_text,
     relevant_terms |-> project.terms,
     start_date |-> project.end_date,
     end_date |-> project.start_date,
     agency_ic_admin |-> project.agency_ic_admin,
     activity_code |-> project.activity_code]

convert_to_project_model(project) ==
    [project_number |-> project.project_number,
     abstract |-> project.abstract_text,
     relevant_terms |-> project.terms,
     start_date |-> project.start_date,
     end_date |-> project.end_date,
     agency_ic_admin |-> project.agency_ic_admin,
     activity_code |-> project.activity_code]

\* a fetcher that drops rows whose project_number was already seen
get_faculty_member_projects_dedup(projects_df) ==
    LET keep == SelectSeq([i \in 1..Len(projects_df) |-> <<i, projects_df[i]>>],
                          LAMBDA p : \A j \in 1..(p[1] - 1) :
                                        projects_df[j].project_number # p[2].project_number)
    IN [i \in 1..Len(keep) |-> convert_to_project_model(keep[i][2])]

\* the list comprehension of line 66, over the rows the collaborator returned
get_faculty_member_projects(projects_df) ==
    [i \in 1..Len(projects_df) |-> convert_to_project_model(projects_df[i])]

convert_to_faculty_model(faculty_profile, projs) ==
    [name |-> faculty_profile.Faculty_Name,
     school |-> faculty_profile.School,
     department |-> faculty_profile.Department,
     about |-> faculty_profile.About_Section,
     email |-> faculty_profile.Email_Address,
     profile_url |-> faculty_profile.Profile_URL,
     projects |-> projs,
     embedding_id |-> Sentinel]

----------------------------------------------------------------------------
(* State helpers *)

EmptyDict == [k \in {} |-> <<>>]

Keys(df) == {df[i].dept : i \in 1..Len(df)}

CurDept == school_faculty_df[d].dept
CurRows == school_faculty_df[d].rows
faculty_profile == CurRows[r]

\* 1-based position of row r of department d in encounter order
Ordinal(df, di, ri) ==
    LET RECURSIVE S(_)
        S(k) == IF k = 0 THEN 0 ELSE Len(df[k].rows) + S(k - 1)
    IN S(di - 1) + ri

\* line 37: aggregated_faculty_data[dept] = []
InitBucketMissing(agg, dept) == agg

InitBucket(agg, dept) ==
    [k \in DOMAIN agg \cup {dept} |-> IF k = dept THEN <<>> ELSE agg[k]]

\* line 44: aggregated_faculty_data[dept].append(faculty)
AppendFacultyFront(agg, dept, f) == [agg EXCEPT ![dept] = <<f>> \o @]

AppendFaculty(agg, dept, f) == [agg EXCEPT ![dept] = Append(@, f)]

\* line 43: faculty.embedding_id = embedding_id
AttachEmbeddingDropped(f, handle) == f

AttachEmbedding(f, handle) == [f EXCEPT !.embedding_id = handle]

\* line 42: one request to the embedding collaborator
IssueEmbeddingRequestTwice(calls, req) == Append(Append(calls, req), req)

IssueEmbeddingRequest(calls, req) == Append(calls, req)

\* an exception leaving aggregate_school_faculty_data: nothing catches it,
\* nothing is returned, and what the collaborators already stored stays
RaiseReturningPartial(err) ==
    /\ pc' = "failed"
    /\ error' = err
    /\ result' = {aggregated_faculty_data}
    /\ UNCHANGED embStore

RaiseWithRollback(err) ==
    /\ pc' = "failed"
    /\ error' = err
    /\ embStore' = <<>>
    /\ UNCHANGED result

Raise(err) ==
    /\ pc' = "failed"
    /\ error' = err
    /\ UNCHANGED <<result, embStore>>

----------------------------------------------------------------------------
(* aggregate_school_faculty_data, one action per step between collaborator calls *)

Init ==
    /\ pc = "start"
    /\ error = NoError
    /\ result = {}
    /\ school_faculty_df = <<>>
    /\ aggregated_faculty_data = EmptyDict
    /\ d = 1
    /\ r = 1
    /\ first_name = <<>>
    /\ last_name = <<>>
    /\ projects = <<>>
    /\ faculty = NoFaculty
    /\ embedding_id = Sentinel
    /\ scrapeCalls = 0
    /\ metaCalls = <<>>
    /\ embCalls = <<>>
    /\ embStore = <<>>

\* lines 34-35
Scrape ==
    /\ pc = "start"
    /\ scrapeCalls' = scrapeCalls + 1
    /\ \/ /\ \E df \in SchoolData : school_faculty_df' = df
          /\ aggregated_faculty_data' = EmptyDict
          /\ d' = 1
          /\ pc' = "dept"
          /\ UNCHANGED <<error, result, embStore>>
       \/ /\ Raise("ScrapeError")
          /\ UNCHANGED <<school_faculty_df, aggregated_faculty_data, d>>
    /\ UNCHANGED <<r, locals, metaCalls, embCalls>>

\* lines 36-37: the outer loop takes its next department
NextDept ==
    /\ pc = "dept"
    /\ d <= Len(school_faculty_df)
    /\ aggregated_faculty_data' = InitBucket(aggregated_faculty_data, CurDept)
    /\ r' = 1
    /\ pc' = "row"
    /\ UNCHANGED <<error, result, school_faculty_df, d, locals, logs>>

\* line 38: the inner loop is exhausted
EndDept ==
    /\ pc = "row"
    /\ r > Len(CurRows)
    /\ d' = d + 1
    /\ pc' = "dept"
    /\ UNCHANGED <<error, result, school_faculty_df, aggregated_faculty_data, r, locals, logs>>

\* lines 38-39: next row, name extraction.  NaN.split raises AttributeError
\* inside the extractor: the name-parsing failure of the error taxonomy
ExtractNames ==
    /\ pc = "row"
    /\ r <= Len(CurRows)
    /\ \/ /\ faculty_profile.Faculty_Name # NaN
          /\ LET names == extract_faculty_names_from_profile(faculty_profile)
             IN /\ first_name' = names[1]
                /\ last_name' = names[2]
          /\ pc' = "fetch"
          /\ UNCHANGED <<error, result, embStore>>
       \/ /\ faculty_profile.Faculty_Name = NaN
          /\ Raise("NameParsingError")
          /\ UNCHANGED <<first_name, last_name>>
    /\ UNCHANGED <<school_faculty_df, aggregated_faculty_data, d, r,
                   projects, faculty, embedding_id, scrapeCalls, metaCalls, embCalls>>

\* line 40, with the collaborator answering from Responses
GetProjectsFrom(Responses) ==
    /\ pc = "fetch"
    /\ \/ \E projects_df \in Responses :
            /\ metaCalls' = Append(metaCalls, [at |-> <<d, r>>, first |-> first_name,
                                               last |-> last_name, rows |-> projects_df,
                                               ok |-> TRUE])
            /\ projects' = get_faculty_member_projects(projects_df)
            /\ pc' = "embed"
            /\ UNCHANGED <<error, result, embStore>>
       \/ /\ metaCalls' = Append(metaCalls, [at |-> <<d, r>>, first |-> first_name,
                                             last |-> last_name, rows |-> <<>>,
                                             ok |-> FALSE])
          /\ Raise("ProjectLookupError")
          /\ UNCHANGED projects
    /\ UNCHANGED <<school_faculty_df, aggregated_faculty_data, d, r,
                   first_name, last_name, faculty, embedding_id, scrapeCalls, embCalls>>

GetProjects == GetProjectsFrom(MetadataResponses)

GetProjectsWide == GetProjectsFrom(MetadataResponsesWide)

\* lines 41-42
Embed ==
    /\ pc = "embed"
    /\ faculty' = convert_to_faculty_model(faculty_profile, projects)
    /\ embCalls' = IssueEmbeddingRequest(embCalls, [at |-> <<d, r>>, faculty |-> faculty',
                                                    projects |-> projects])
    /\ \/ \E handle \in Handles :
            /\ embedding_id' = handle
            /\ embStore' = Append(embStore, [at |-> <<d, r>>, handle |-> handle])
            /\ pc' = "attach"
            /\ UNCHANGED <<error, result>>
       \/ /\ Raise("EmbeddingError")
          /\ UNCHANGED embedding_id
    /\ UNCHANGED <<school_faculty_df, aggregated_faculty_data, d, r,
                   first_name, last_name, projects, scrapeCalls, metaCalls>>

\* lines 43-44
Attach ==
    /\ pc = "attach"
    /\ faculty' = AttachEmbedding(faculty, embedding_id)
    /\ aggregated_faculty_data' = AppendFaculty(aggregated_faculty_data, CurDept, faculty')
    /\ r' = r + 1
    /\ pc' = "row"
    /\ UNCHANGED <<error, result, school_faculty_df, d,
                   first_name, last_name, projects, embedding_id, logs>>

\* line 45
Return ==
    /\ pc = "dept"
    /\ d > Len(school_faculty_df)
    /\ result' = {aggregated_faculty_data}
    /\ pc' = "done"
    /\ UNCHANGED <<error, school_faculty_df, aggregated_faculty_data, d, r, locals, logs>>

Next ==
    \/ Scrape
    \/ NextDept
    \/ EndDept
    \/ ExtractNames
    \/ GetProjects
    \/ Embed
    \/ Attach
    \/ Return

Spec == Init /\ [][Next]_vars

----------------------------------------------------------------------------
(* The name extractor alone, over every display name up to MaxNameLen *)

InitExtract ==
    /\ pc = "row"
    /\ error = NoError
    /\ result = {}
    /\ \E name \in Names :
         school_faculty_df = <<[dept |-> "Computer Science",
                                rows |-> <<ProfileRow(name, "Computer Science", "", "", "")>>]>>
    /\ aggregated_faculty_data = InitBucket(EmptyDict, "Computer Science")
    /\ d = 1
    /\ r = 1
    /\ first_name = <<>>
    /\ last_name = <<>>
    /\ projects = <<>>
    /\ faculty = NoFaculty
    /\ embedding_id = Sentinel
    /\ scrapeCalls = 1
    /\ metaCalls = <<>>
    /\ embCalls = <<>>
    /\ embStore = <<>>

NextExtract == ExtractNames

SpecExtract == InitExtract /\ [][NextExtract]_vars

----------------------------------------------------------------------------
(* The project fetcher alone, over every metadata answer up to MaxProjects *)

InitProjects ==
    /\ pc = "fetch"
    /\ error = NoError
    /\ result = {}
    /\ \E row \in ProfileRows :
         /\ row.Faculty_Name # NaN
         /\ school_faculty_df = <<[dept |-> row.Department, rows |-> <<row>>]>>
         /\ aggregated_faculty_data = InitBucket(EmptyDict, row.Department)
         /\ first_name = extract_faculty_names_from_profile(row)[1]
         /\ last_name = extract_faculty_names_from_profile(row)[2]
    /\ d = 1
    /\ r = 1
    /\ projects = <<>>
    /\ faculty = NoFaculty
    /\ embedding_id = Sentinel
    /\ scrapeCalls = 1
    /\ metaCalls = <<>>
    /\ embCalls = <<>>
    /\ embStore = <<>>

NextProjects ==
    \/ GetProjectsWide
    \/ Embed

SpecProjects == InitProjects /\ [][NextProjects]_vars

----------------------------------------------------------------------------
(* Properties *)

RowAt(at) == school_faculty_df[at[1]].rows[at[2]]
DeptIndex(k) == CHOOSE i \in 1..Len(school_faculty_df) : school_faculty_df[i].dept = k
Positions(log) == [i \in 1..Len(log) |-> Ordinal(school_faculty_df, log[i].at[1], log[i].at[2])]
InOrder(log) == \A i \in 1..Len(log) : Positions(log)[i] = i

\* C1: every Faculty record of a returned mapping carries the handle the
\* embedding collaborator returned for that record, never the sentinel -1.
C1_EmbeddingResolved ==
    \A res \in result : \A k \in DOMAIN res : \A i \in 1..Len(res[k]) :
        /\ res[k][i].embedding_id # Sentinel
        /\ \E w \in 1..Len(embStore) :
              /\ embStore[w].at = <<DeptIndex(k), i>>
              /\ embStore[w].handle = res[k][i].embedding_id

C1_Witness ==
    /\ pc = "done"
    /\ \E res \in result : \E k \in DOMAIN res :
          /\ Len(res[k]) >= 2
          /\ res[k][1].embedding_id = 42
          /\ res[k][2].embedding_id = 7

\* C2: when any step fails for any row (or the scrape fails), the call ends
\* with that error and returns nothing, whatever was already aggregated.
C2_AbortNoPartial ==
    /\ (\/ error # NoError
        \/ \E i \in 1..Len(metaCalls) : ~metaCalls[i].ok
        \/ Len(embCalls) > Len(embStore))
           => (pc = "failed" /\ error # NoError /\ result = {})
    /\ pc = "failed" => result = {}
    /\ result # {} => (pc = "done" /\ error = NoError)

C2_Witness ==
    /\ pc = "failed"
    /\ error = "ProjectLookupError"
    /\ result = {}
    /\ d = 2
    /\ Len(aggregated_faculty_data[school_faculty_df[1].dept]) >= 1

\* C3: the returned mapping has exactly the scraper's department keys, and a
\* department without rows is present with an empty list.
C3_KeysPreserved ==
    \A res \in result :
        /\ DOMAIN res = Keys(school_faculty_df)
        /\ \A i \in 1..Len(school_faculty_df) :
              Len(school_faculty_df[i].rows) = 0 => res[school_faculty_df[i].dept] = <<>>

C3_Witness ==
    /\ pc = "done"
    /\ Len(school_faculty_df) = 2
    /\ Len(school_faculty_df[1].rows) = 0
    /\ Len(school_faculty_df[2].rows) >= 1
    /\ \E res \in result : DOMAIN res = Depts /\ res[school_faculty_df[1].dept] = <<>>

\* C4: in a returned mapping each department's list has one Faculty record
\* per raw row, the i-th built from the i-th row (six fields copied, projects
\* being the ones fetched for that row).
C4_RowsInOrder ==
    \A res \in result : \A i \in 1..Len(school_faculty_df) :
        LET rows == school_faculty_df[i].rows
            out == res[school_faculty_df[i].dept]
        IN /\ Len(out) = Len(rows)
           /\ \A j \in 1..Len(rows) :
                 /\ out[j].name = rows[j].Faculty_Name
                 /\ out[j].school = rows[j].School
                 /\ out[j].department = rows[j].Department
                 /\ out[j].about = rows[j].About_Section
                 /\ out[j].email = rows[j].Email_Address
                 /\ out[j].profile_url = rows[j].Profile_URL
                 /\ \E c \in 1..Len(metaCalls) :
                       /\ metaCalls[c].at = <<i, j>>
                       /\ Len(out[j].projects) = Len(metaCalls[c].rows)
                       /\ \A q \in 1..Len(metaCalls[c].rows) :
                             /\ out[j].projects[q].project_number = metaCalls[c].rows[q].project_number
                             /\ out[j].projects[q].abstract = metaCalls[c].rows[q].abstract_text

C4_Witness ==
    /\ pc = "done"
    /\ Len(school_faculty_df) = 2
    /\ Len(school_faculty_df[1].rows) = 2
    /\ Len(school_faculty_df[2].rows) = 1
    /\ school_faculty_df[1].rows[1] # school_faculty_df[1].rows[2]
    /\ \E res \in result :
          /\ Len(res[school_faculty_df[1].dept]) = 2
          /\ Len(res[school_faculty_df[1].dept][1].projects) = 2
          /\ Len(res[school_faculty_df[1].dept][2].projects) = 0

IsFirstToken(n, t) ==
    /\ Len(t) <= Len(n)
    /\ \A i \in 1..Len(t) : t[i] = n[i] /\ t[i] # Space
    /\ Len(t) = Len(n) \/ n[Len(t) + 1] = Space

IsLastToken(n, t) ==
    /\ Len(t) <= Len(n)
    /\ \A i \in 1..Len(t) : t[i] = n[Len(n) - Len(t) + i] /\ t[i] # Space
    /\ Len(t) = Len(n) \/ n[Len(n) - Len(t)] = Space

\* C5: for a display name that is a string, first_name is the first of its
\* space-separated tokens and last_name the last one, verbatim; a name
\* without a space gives that name twice, and the extraction does not fail.
C5_FirstAndLastToken ==
    LET n == faculty_profile.Faculty_Name
    IN /\ pc = "fetch" =>
             /\ IsFirstToken(n, first_name)
             /\ IsLastToken(n, last_name)
             /\ (\A i \in 1..Len(n) : n[i] # Space) => (first_name = n /\ last_name = n)
       /\ pc = "failed" => n = NaN

C5_Witness ==
    /\ pc = "fetch"
    /\ faculty_profile.Faculty_Name = <<"a", Space, "a", Space, "b">>
    /\ first_name = <<"a">>
    /\ last_name = <<"b">>

\* C6: an empty or absent display name ends the row with NameParsingError,
\* and only such a name does; no metadata lookup and no embedding request is
\* issued for that row.
C6_EmptyNameFails ==
    /\ error = "NameParsingError" => RowAt(<<d, r>>).Faculty_Name \in {<<>>, NaN}
    /\ \A i \in 1..Len(metaCalls) : RowAt(metaCalls[i].at).Faculty_Name \notin {<<>>, NaN}
    /\ \A i \in 1..Len(embCalls) : RowAt(embCalls[i].at).Faculty_Name \notin {<<>>, NaN}

\* C7: the fetcher returns one Project per row the metadata collaborator
\* returned, in the same order, duplicates of a project_number kept; zero
\* rows give an empty sequence, also in the Faculty record.
C7_ProjectsPreserved ==
    pc \in {"embed", "attach"} =>
        LET rows == metaCalls[Len(metaCalls)].rows
        IN /\ Len(projects) = Len(rows)
           /\ \A i \in 1..Len(rows) :
                 /\ projects[i].project_number = rows[i].project_number
                 /\ projects[i].abstract = rows[i].abstract_text
           /\ pc = "attach" =>
                 /\ faculty.projects = projects
                 /\ Len(rows) = 0 => faculty.projects = <<>>

C7_Witness ==
    /\ pc = "attach"
    /\ Len(metaCalls[1].rows) = 2
    /\ metaCalls[1].rows[1].project_number = metaCalls[1].rows[2].project_number
    /\ metaCalls[1].rows[1] # metaCalls[1].rows[2]
    /\ Len(faculty.projects) = 2

\* C8: every Project equals its raw metadata row up to the two renamed
\* fields (abstract_text -> abstract, terms -> relevant_terms), a missing
\* end_date included.
C8_PureRename ==
    pc \in {"embed", "attach"} =>
        LET rows == metaCalls[Len(metaCalls)].rows
        IN \A i \in 1..Len(projects) :
              /\ i <= Len(rows)
              /\ DOMAIN projects[i] = {"project_number", "abstract", "relevant_terms", "start_date",
                                       "end_date", "agency_ic_admin", "activity_code"}
              /\ projects[i].project_number = rows[i].project_number
              /\ projects[i].abstract = rows[i].abstract_text
              /\ projects[i].relevant_terms = rows[i].terms
              /\ projects[i].start_date = rows[i].start_date
              /\ projects[i].end_date = rows[i].end_date
              /\ projects[i].agency_ic_admin = rows[i].agency_ic_admin
              /\ projects[i].activity_code = rows[i].activity_code

C8_Witness ==
    /\ pc = "embed"
    /\ Len(projects) = 2
    /\ projects[1].end_date = NaT
    /\ projects[1].relevant_terms = <<"t1", "t2">>
    /\ projects[2].end_date = "2024-12-31"
    /\ projects[2].abstract = ""

\* C9: one scrape per call; at most one metadata lookup and one embedding
\* request per raw row, the request carrying that row's Faculty record and
\* its projects; in a call that returns, exactly one of each per row.
C9_OneRequestPerRow ==
    /\ scrapeCalls <= 1
    /\ pc # "start" => scrapeCalls = 1
    /\ \A i, j \in 1..Len(embCalls) : i # j => embCalls[i].at # embCalls[j].at
    /\ \A i, j \in 1..Len(metaCalls) : i # j => metaCalls[i].at # metaCalls[j].at
    /\ \A i \in 1..Len(embCalls) :
          /\ embCalls[i].faculty.name = RowAt(embCalls[i].at).Faculty_Name
          /\ embCalls[i].faculty.profile_url = RowAt(embCalls[i].at).Profile_URL
          /\ embCalls[i].projects = embCalls[i].faculty.projects
          /\ \E c \in 1..Len(metaCalls) :
                /\ metaCalls[c].at = embCalls[i].at
                /\ Len(metaCalls[c].rows) = Len(embCalls[i].projects)
    /\ pc = "done" =>
          /\ Len(embCalls) = SumRows(school_faculty_df)
          /\ Len(metaCalls) = SumRows(school_faculty_df)
          /\ Len(embStore) = SumRows(school_faculty_df)

C9_Witness ==
    /\ pc = "done"
    /\ Len(school_faculty_df) = 2
    /\ SumRows(school_faculty_df) = 3
    /\ Len(embCalls) = 3
    /\ Len(metaCalls) = 3
    /\ scrapeCalls = 1

\* C10: collaborator calls go out row by row in encounter order, lookup
\* before embedding; when the call aborts at the k-th row, embedding requests
\* were issued for the rows before k (and for row k only if the embedding
\* request itself failed), and the k-1 vectors already stored remain stored.
C10_SequentialAbort ==
    /\ InOrder(metaCalls)
    /\ InOrder(embCalls)
    /\ InOrder(embStore)
    /\ Len(embCalls) <= Len(metaCalls)
    /\ Len(metaCalls) <= Len(embStore) + 1
    /\ (pc = "failed" /\ error # "ScrapeError") =>
          LET k == Ordinal(school_faculty_df, d, r)
          IN /\ Len(embStore) = k - 1
             /\ Len(embCalls) = IF error = "EmbeddingError" THEN k ELSE k - 1
             /\ Len(metaCalls) = IF error = "NameParsingError" THEN k - 1 ELSE k

C10_Witness ==
    /\ pc = "failed"
    /\ error = "ProjectLookupError"
    /\ Ordinal(school_faculty_df, d, r) = 3
    /\ Len(embStore) = 2
    /\ Len(embCalls) = 2
    /\ Len(metaCalls) = 3

====
